---- MODULE Spec2Model ----
(***************************************************************************)
(* Model of gazebo::MotorModelServo (motor_model_servo.hpp): construction  *)
(* from an SDF element (InitializeParams), the angle normalisation         *)
(* (NormalizeAngle) and the per-tick update (UpdateForcesAndMoments).      *)
(*                                                                         *)
(* Numbers.  The source computes in IEEE-754 binary64 with                 *)
(* round-to-nearest-even.  The model keeps the format and shrinks it: a    *)
(* value is an integer count of the smallest quantum, a representable      *)
(* value has a significand of SignificandBits bits, and every + and - of   *)
(* the source is followed by Round.  fmod, abs, copysign, min, max and the *)
(* comparisons are exact in IEEE-754 and are exact here.  One turn, 2*M_PI,*)
(* is TwoPi quanta, M_PI is Pi quanta, and the tolerance 1e-8 is Eps       *)
(* quanta; as in binary64, Eps is larger than the spacing of the values    *)
(* next to 2*M_PI and the quantum is smaller than half that spacing.       *)
(***************************************************************************)
EXTENDS Integers, Sequences, FiniteSets, TLC

VARIABLES phase, sdf, servo, pid, servo2, pid2, obs, ticks, calls

vars == <<phase, sdf, servo, pid, servo2, pid2, obs, ticks, calls>>

----------------------------------------------------------------------------
(* binary floating point, reduced *)

SignificandBits == 5

\* 2 * M_PI, M_PI and 1e-8 in quanta
TwoPi == 100
Pi == 50
Eps == 6

\* largest magnitude of an angle or rate handed to the controller
MaxAngle == 248

\* exponents above the quantum the model's values reach
MaxExponent == 12

Pow2[n \in 0..(SignificandBits + MaxExponent)] ==
  IF n = 0 THEN 1 ELSE 2 * Pow2[n - 1]

Abs(x) == IF x < 0 THEN -x ELSE x

\* spacing of the representable values at magnitude a
Ulp(a) ==
  LET e == CHOOSE k \in 0..MaxExponent :
             /\ a < Pow2[SignificandBits + k]
             /\ k = 0 \/ a >= Pow2[SignificandBits + k - 1]
  IN  Pow2[e]

IsFloat(x) == Abs(x) % Ulp(Abs(x)) = 0

\* round-to-nearest, ties to the even significand
RoundExact(x) ==
  LET a == Abs(x)
      u == Ulp(a)
      q == a \div u
      r == a % u
      m == IF 2 * r < u THEN q
           ELSE IF 2 * r > u THEN q + 1
           ELSE IF q % 2 = 0 THEN q ELSE q + 1
  IN  IF x < 0 THEN -(m * u) ELSE m * u

\* the exact results the model's operations can produce lie in this range
RoundRange == Pow2[SignificandBits + 7]

RoundTable == [x \in -RoundRange..RoundRange |-> RoundExact(x)]

Round(x) == RoundTable[x]

FAdd(x, y) == Round(x + y)
FSub(x, y) == Round(x - y)

\* std::fmod of non-negative x by positive y: exact
FMod(x, y) == x % y

\* std::copysign(x, y) for y of a known sign; a zero of either sign is 0
CopySign(x, y) == IF y < 0 THEN -Abs(x) ELSE Abs(x)

Min(x, y) == IF x < y THEN x ELSE y
Max(x, y) == IF x < y THEN y ELSE x

Floats == {x \in -MaxAngle..MaxAngle : IsFloat(x)}

----------------------------------------------------------------------------
(* the SDF element: a function from the names of the elements present *)

HasElement(e, name) == name \in DOMAIN e

\* common.h getSdfParam<double>: the element's value, or the default
getSdfParam(e, name, default) == IF HasElement(e, name) THEN e[name] ELSE default

\* spin::CW, spin::CCW
CW == -1
CCW == 1

kDefaultMaxRotVelocity == 30
kDefaultMaxTorque == 10
kDefaultMaxRotPosition == 16
kDefaultMinRotPosition == -16
kDefaultPositionOffset == 0

----------------------------------------------------------------------------
(* gazebo::common::PID *)

\* a double that may have left the finite range (inf, nan)
Fin(v) == [finite |-> TRUE, value |-> v]
NonFinite == [finite |-> FALSE, value |-> 0]

FMul(x, y) == Round(x * y)

\* x / y for y # 0, to the nearest representable value
FDiv(x, y) ==
  LET a == Abs(x)
      b == Abs(y)
      q == a \div b
      r == a % b
      m == IF 2 * r < b THEN q
           ELSE IF 2 * r > b THEN q + 1
           ELSE IF q % 2 = 0 THEN q ELSE q + 1
  IN  IF (x < 0) # (y < 0) THEN -Round(m) ELSE Round(m)

\* PID::Init: the gains and clamps, then PID::Reset
PIDInit(p, i, d, imax, imin, cmdmax, cmdmin) ==
  [pGain |-> p, iGain |-> i, dGain |-> d, iMax |-> imax, iMin |-> imin,
   cmdMax |-> cmdmax, cmdMin |-> cmdmin,
   pErrLast |-> 0, pErr |-> 0, iErr |-> Fin(0), dErr |-> 0, cmd |-> Fin(0)]

\* iErr = iErr + _dt * pErr
IntegralError(c, error, dt) ==
  IF c.iErr.finite THEN Fin(FAdd(c.iErr.value, FMul(dt, error)))
  ELSE NonFinite

\* iTerm = iGain * iErr; a non-finite iErr arises only with iGain = 0, and
\* 0 * inf is nan
IntegralTerm(c, iErr) ==
  IF iErr.finite THEN Fin(FMul(c.iGain, iErr.value)) ELSE NonFinite

\* iErr = iTerm / iGain
IntegralReset(c, iTerm) ==
  IF c.iGain = 0 THEN NonFinite ELSE Fin(FDiv(iTerm, c.iGain))

\* the limits iMax and iMin of the integral term: the term and the error kept
LimitIntegral(c, iErr, iTerm) ==
  IF iTerm.finite /\ iTerm.value > c.iMax
  THEN [iTerm |-> Fin(c.iMax), iErr |-> IntegralReset(c, c.iMax)]
  ELSE IF iTerm.finite /\ iTerm.value < c.iMin
  THEN [iTerm |-> Fin(c.iMin), iErr |-> IntegralReset(c, c.iMin)]
  ELSE [iTerm |-> iTerm, iErr |-> iErr]

\* cmd = -pTerm - iTerm - dTerm
Command(pTerm, iTerm, dTerm) ==
  IF iTerm.finite THEN Fin(FSub(FSub(-pTerm, iTerm.value), dTerm))
  ELSE NonFinite

\* the command limits: a limit of 0 is no limit, a nan passes
LimitCommandMax(c, cmd) ==
  IF cmd.finite /\ c.cmdMax # 0 /\ cmd.value > c.cmdMax THEN Fin(c.cmdMax)
  ELSE cmd

LimitCommandMin(c, cmd) ==
  IF cmd.finite /\ c.cmdMin # 0 /\ cmd.value < c.cmdMin THEN Fin(c.cmdMin)
  ELSE cmd

PIDResult(c, error, iErr, dErr, cmd) ==
  [pid |-> [c EXCEPT !.pErr = error, !.pErrLast = error, !.iErr = iErr,
                     !.dErr = dErr, !.cmd = cmd],
   out |-> cmd]

PIDCommand(c, error, lim, dErr) ==
  PIDResult(c, error, lim.iErr, dErr,
            LimitCommandMin(c, LimitCommandMax(c,
              Command(FMul(c.pGain, error), lim.iTerm, FMul(c.dGain, dErr)))))

PIDIntegral(c, error, dt, iErr) ==
  PIDCommand(c, error, LimitIntegral(c, iErr, IntegralTerm(c, iErr)),
             FDiv(FSub(error, c.pErrLast), dt))

\* PID::Update(_error, _dt): the new integrator and the command returned
PIDUpdate(c, error, dt) ==
  IF dt = 0
  THEN [pid |-> [c EXCEPT !.pErr = error], out |-> Fin(0)]
  ELSE PIDIntegral(c, error, dt, IntegralError(c, error, dt))

----------------------------------------------------------------------------
(* MotorModelServo: constructor and InitializeParams, lines 39-51, 73-131 *)

\* the member initialisers of the constructor
CtorDefaults ==
  [mode_ |-> "kPosition",
   turning_direction_ |-> CCW,
   max_rot_velocity_ |-> kDefaultMaxRotVelocity,
   max_torque_ |-> kDefaultMaxTorque,
   max_rot_position_ |-> kDefaultMaxRotPosition,
   min_rot_position_ |-> kDefaultMinRotPosition,
   position_zero_offset_ |-> kDefaultPositionOffset]

ResolveModeForceAsPosition(e, cur) ==
  IF HasElement(e, "controlMode")
  THEN IF e["controlMode"] = "velocity" THEN "kVelocity"
       ELSE IF e["controlMode"] = "position" THEN "kPosition"
       ELSE cur
  ELSE cur

\* lines 75-90
ResolveMode(e, cur) ==
  IF HasElement(e, "controlMode")
  THEN IF e["controlMode"] = "velocity" THEN "kVelocity"
       ELSE IF e["controlMode"] = "position" THEN "kPosition"
       ELSE IF e["controlMode"] = "force" THEN "kForce"
       ELSE cur
  ELSE cur

\* lines 93-104: "ccw" assigns to the local string, the member keeps its value
ResolveSpin(e, cur) ==
  IF HasElement(e, "spinDirection")
  THEN IF e["spinDirection"] = "cw" THEN CW
       ELSE IF e["spinDirection"] = "ccw" THEN cur
       ELSE cur
  ELSE cur

\* lines 73-112: the members after InitializeParams
InitializeParams(e) ==
  [mode_ |-> ResolveMode(e, CtorDefaults.mode_),
   turning_direction_ |-> ResolveSpin(e, CtorDefaults.turning_direction_),
   max_rot_velocity_ |->
     getSdfParam(e, "maxRotVelocity", CtorDefaults.max_rot_velocity_),
   max_torque_ |-> CtorDefaults.max_torque_,
   max_rot_position_ |->
     getSdfParam(e, "maxRotPosition", CtorDefaults.max_rot_position_),
   min_rot_position_ |->
     getSdfParam(e, "minRotPosition", CtorDefaults.min_rot_position_),
   position_zero_offset_ |->
     getSdfParam(e, "zeroOffset", CtorDefaults.position_zero_offset_)]

PidInitArgsAbsentUnit(e, uninit) ==
  IF HasElement(e, "joint_control_pid")
  THEN LET b == e["joint_control_pid"]
           p0 == getSdfParam(b, "p", 0)
           p1 == getSdfParam(b, "iMax", 0)
       IN  [p |-> p1, i |-> getSdfParam(b, "i", 0), d |-> getSdfParam(b, "d", 0),
            iMax |-> uninit, iMin |-> getSdfParam(b, "iMin", 0),
            cmdMax |-> getSdfParam(b, "cmdMax", 0),
            cmdMin |-> getSdfParam(b, "cmdMin", 0)]
  ELSE [p |-> 1, i |-> 0, d |-> 0, iMax |-> 0, iMin |-> 0,
        cmdMax |-> 0, cmdMin |-> 0]

\* lines 115-130: the arguments of pid_.Init.  Line 121 reads "iMax" into p,
\* after line 118 read "p" into it; iMax is never assigned and is passed as
\* whatever the stack held (uninit).
PidInitArgs(e, uninit) ==
  IF HasElement(e, "joint_control_pid")
  THEN LET b == e["joint_control_pid"]
           p0 == getSdfParam(b, "p", 0)
           p1 == getSdfParam(b, "iMax", 0)
       IN  [p |-> p1, i |-> getSdfParam(b, "i", 0), d |-> getSdfParam(b, "d", 0),
            iMax |-> uninit, iMin |-> getSdfParam(b, "iMin", 0),
            cmdMax |-> getSdfParam(b, "cmdMax", 0),
            cmdMin |-> getSdfParam(b, "cmdMin", 0)]
  ELSE [p |-> 0, i |-> 0, d |-> 0, iMax |-> 0, iMin |-> 0,
        cmdMax |-> 0, cmdMin |-> 0]

InitPid(a) == PIDInit(a.p, a.i, a.d, a.iMax, a.iMin, a.cmdMax, a.cmdMin)

----------------------------------------------------------------------------
(* NormalizeAngle, lines 135-152 *)

NormalizeAngle(input) ==
  LET w0 == CopySign(FMod(Abs(input), TwoPi), input)
      w1 == IF Abs(FSub(w0, TwoPi)) < Eps THEN 0 ELSE w0
  IN  IF w1 < 0 THEN FAdd(w1, TwoPi) ELSE w1

----------------------------------------------------------------------------
(* UpdateForcesAndMoments, lines 154-198 *)

ClampRefPosUpperOnly(ref, s) == Min(ref, s.max_rot_position_)

\* lines 160-161
ClampRefPos(ref, s) ==
  Max(Min(ref, s.max_rot_position_), s.min_rot_position_)

\* lines 162-172: the error handed to pid_.Update in position mode
PositionError(pos, ref_pos) ==
  LET e0 == FSub(NormalizeAngle(pos), NormalizeAngle(ref_pos))
      e1 == IF e0 > Pi THEN FSub(e0, TwoPi) ELSE e0
  IN  IF Abs(FSub(e1, Pi)) < Eps THEN Pi ELSE e1

\* lines 180-182 and 187-189: std::copysign(ref, std::min(std::abs(ref), limit))
ClampMagnitude(ref, limit) == CopySign(ref, Min(Abs(ref), limit))

\* turning_direction_ * force
Directed(dir, f) == IF f.finite THEN Fin(dir * f.value) ELSE NonFinite

\* the argument of joint_->SetForce
AppliedForce(dir, f) == Directed(dir, f)

PositionBranch(s, c, dt, ref_pos, err) ==
  [branch |-> "kPosition", ref |-> ref_pos, updated |-> TRUE, err |-> err,
   upd |-> PIDUpdate(c, err, dt)]

ForceBranch(s, c, ref_torque) ==
  [branch |-> "kForce", ref |-> ref_torque, updated |-> FALSE, err |-> 0,
   upd |-> [pid |-> c, out |-> Fin(ref_torque)]]

VelocityBranch(s, c, dt, ref_vel, err) ==
  [branch |-> "kVelocity", ref |-> ref_vel, updated |-> TRUE, err |-> err,
   upd |-> PIDUpdate(c, err, dt)]

WithReference(s, c, j, dt, ref_pos, ref_torque, ref_vel) ==
  IF s.mode_ = "kPosition"
  THEN PositionBranch(s, c, dt, ref_pos, PositionError(j.pos, ref_pos))
  ELSE IF s.mode_ = "kForce"
  THEN ForceBranch(s, c, ref_torque)
  ELSE VelocityBranch(s, c, dt, ref_vel, FSub(j.vel, ref_vel))

\* One call: the members read from the joint (j), the reference members (r),
\* sampling_time_ (dt).  Gives the branch taken, the clamped reference, the
\* error handed to pid_.Update (when it is called) and, in upd, the
\* integrator afterwards and the force before turning_direction_.
UpdateForcesAndMoments(s, c, j, r, dt) ==
  WithReference(s, c, j, dt, ClampRefPos(r.pos, s),
                ClampMagnitude(r.effort, s.max_torque_),
                ClampMagnitude(r.vel, s.max_rot_velocity_))

----------------------------------------------------------------------------
(* bounds and inputs *)

\* calls of UpdateForcesAndMoments in one run
MaxTicks == 2

\* largest sampling_time_
MaxDt == 1

\* magnitude of the value an uninitialised double may hold
MaxUninit == 3

Uninit == {-MaxUninit, 0, MaxUninit}

NoElement == [n \in {} |-> 0]

Field(name, values) == {NoElement} \cup {name :> v : v \in values}

\* every joint_control_pid block: each of the seven fields present or not
PidBlocks ==
  {p @@ i @@ d @@ x @@ n @@ cx @@ cn :
     p \in Field("p", {1}), i \in Field("i", {2}), d \in Field("d", {3}),
     x \in Field("iMax", {4}), n \in Field("iMin", {-5}),
     cx \in Field("cmdMax", {6}), cn \in Field("cmdMin", {-7})}

\* the motor elements without a joint_control_pid block
BaseElements ==
  {m @@ s @@ v @@ hi @@ lo @@ z :
     m \in Field("controlMode", {"velocity", "position", "force", "torque"}),
     s \in Field("spinDirection", {"cw", "ccw", "left"}),
     v \in Field("maxRotVelocity", {10}),
     hi \in Field("maxRotPosition", {124, 4}),
     lo \in Field("minRotPosition", {-124, 8}),
     z \in Field("zeroOffset", {1})}

\* the elements the construction claims range over: every base element with
\* no block and with a full block, and every block in two base elements
AllElements ==
  {e @@ b : e \in BaseElements,
            b \in Field("joint_control_pid",
                        {k \in PidBlocks : Cardinality(DOMAIN k) = 7})}
    \cup {e @@ ("joint_control_pid" :> k) :
            e \in {NoElement, "spinDirection" :> "cw"}, k \in PidBlocks}

\* the blocks the tick runs use: all fields, or integral clamps without gain
TickPidBlocks ==
  {[p |-> 1, i |-> 1, d |-> 1, iMax |-> 4, iMin |-> -4, cmdMax |-> 40,
    cmdMin |-> -40],
   [p |-> 2, iMax |-> 2, iMin |-> 1]}

TickSpins == {"spinDirection" :> "cw", "spinDirection" :> "ccw"}

TickElements ==
  {("controlMode" :> "position") @@ s @@ l @@ b :
     s \in TickSpins,
     l \in {NoElement,
            ("maxRotPosition" :> 124) @@ ("minRotPosition" :> -124)},
     b \in Field("joint_control_pid", TickPidBlocks)}
    \cup {("controlMode" :> "velocity") @@ s @@ v @@ b :
            s \in TickSpins, v \in Field("maxRotVelocity", {10}),
            b \in Field("joint_control_pid", TickPidBlocks)}
    \cup {("controlMode" :> "force") @@ s : s \in TickSpins}

\* measured and commanded angles, rates and efforts of a tick
TickAngles == {x \in Floats : x \in {-1, 8, 92}}
TickRefAngles == {x \in Floats : x \in {-104, -16, 8, 92, 200}}
TickRates == {x \in Floats : x \in {-10, 0, 50}}
TickRefRates == {x \in Floats : x \in {-50, -4, 0, 50}}

Triple(p, v, t) == [pos |-> p, vel |-> v, effort |-> t]

\* what joint_ reports and what the reference members hold at a tick: the
\* host commands the quantity of the controller's mode
TickInputs(mode) ==
  IF mode = "kPosition"
  THEN {[joint |-> Triple(a, 0, 0), reference |-> Triple(b, 0, 0)] :
          a \in TickAngles, b \in TickRefAngles}
  ELSE IF mode = "kVelocity"
  THEN {[joint |-> Triple(0, v, 1), reference |-> Triple(0, w, 0)] :
          v \in TickRates, w \in TickRefRates}
  ELSE {[joint |-> Triple(0, 0, t), reference |-> Triple(0, 0, t)] :
          t \in TickRefRates}

NoController ==
  [mode_ |-> "none", turning_direction_ |-> 0, max_rot_velocity_ |-> 0,
   max_torque_ |-> 0, max_rot_position_ |-> 0, min_rot_position_ |-> 0,
   position_zero_offset_ |-> 0]

NoPid == PIDInit(0, 0, 0, 0, 0, 0, 0)

NoObs ==
  [branch |-> "none", joint |-> [pos |-> 0, vel |-> 0, effort |-> 0],
   reference |-> [pos |-> 0, vel |-> 0, effort |-> 0], dt |-> 0,
   ref |-> 0, updated |-> FALSE, err |-> 0, force |-> Fin(0),
   force2 |-> Fin(0)]

----------------------------------------------------------------------------
(* one controller: construction, then ticks *)

InitWith(elements) ==
  /\ phase = "new"
  /\ sdf \in elements
  /\ servo = NoController
  /\ pid = NoPid
  /\ servo2 = NoController
  /\ pid2 = NoPid
  /\ obs = NoObs
  /\ ticks = 0
  /\ calls = <<>>

\* MotorModelServo(_model, _motor)
Construct ==
  /\ phase = "new"
  /\ \E g \in Uninit :
       /\ servo' = InitializeParams(sdf)
       /\ pid' = InitPid(PidInitArgs(sdf, g))
  /\ phase' = "ready"
  /\ UNCHANGED <<sdf, servo2, pid2, obs, ticks, calls>>

\* the members and the SetForce argument after one call
Observed(in, dt, dir, u) ==
  /\ pid' = u.upd.pid
  /\ obs' = [branch |-> u.branch, joint |-> in.joint,
             reference |-> in.reference, dt |-> dt, ref |-> u.ref,
             updated |-> u.updated, err |-> u.err,
             force |-> AppliedForce(dir, u.upd.out), force2 |-> Fin(0)]

\* the host's tick: the joint state and the reference of this tick, then
\* UpdateForcesAndMoments
Tick ==
  /\ phase = "ready"
  /\ ticks < MaxTicks
  /\ \E in \in TickInputs(servo.mode_), dt \in 0..MaxDt :
       Observed(in, dt, servo.turning_direction_,
                UpdateForcesAndMoments(servo, pid, in.joint, in.reference, dt))
  /\ ticks' = ticks + 1
  /\ UNCHANGED <<phase, sdf, servo, servo2, pid2, calls>>

Init == InitWith(TickElements)

Next == Construct \/ Tick

Spec == Init /\ [][Next]_vars

----------------------------------------------------------------------------
(* construction alone, over every element *)

InitConfig == InitWith(AllElements)

NextConfig == Construct

SpecConfig == InitConfig /\ [][NextConfig]_vars

----------------------------------------------------------------------------
(* NormalizeAngle alone: the last two calls and what they returned *)

InitNormalize ==
  /\ phase = "normalize"
  /\ sdf = NoElement
  /\ servo = NoController
  /\ pid = NoPid
  /\ servo2 = NoController
  /\ pid2 = NoPid
  /\ obs = NoObs
  /\ ticks = 0
  /\ calls = <<>>

Called(x) == [input |-> x, result |-> NormalizeAngle(x)]

NormalizeCall ==
  /\ phase = "normalize"
  /\ \E x \in Floats :
       calls' = IF calls = <<>> THEN <<Called(x)>>
                ELSE <<calls[Len(calls)], Called(x)>>
  /\ UNCHANGED <<phase, sdf, servo, pid, servo2, pid2, obs, ticks>>

NextNormalize == NormalizeCall

SpecNormalize == InitNormalize /\ [][NextNormalize]_vars

----------------------------------------------------------------------------
(* two controllers whose elements differ in spinDirection alone, driven by *)
(* the same joint state, references and sampling time                      *)

PairElements == {e \in TickElements : e["spinDirection"] = "cw"}

InitPair == InitWith(PairElements)

\* the element of the second controller
OtherSpin(e) == [e EXCEPT !["spinDirection"] = "ccw"]

ConstructPair ==
  /\ phase = "new"
  /\ \E g \in Uninit, h \in Uninit :
       /\ servo' = InitializeParams(sdf)
       /\ pid' = InitPid(PidInitArgs(sdf, g))
       /\ servo2' = InitializeParams(OtherSpin(sdf))
       /\ pid2' = InitPid(PidInitArgs(OtherSpin(sdf), h))
  /\ phase' = "ready"
  /\ UNCHANGED <<sdf, obs, ticks, calls>>

ObservedPair(in, dt, u, v) ==
  /\ pid' = u.upd.pid
  /\ pid2' = v.upd.pid
  /\ obs' = [branch |-> u.branch, joint |-> in.joint,
             reference |-> in.reference, dt |-> dt, ref |-> u.ref,
             updated |-> u.updated, err |-> u.err,
             force |-> AppliedForce(servo.turning_direction_, u.upd.out),
             force2 |-> AppliedForce(servo2.turning_direction_, v.upd.out)]

TickPair ==
  /\ phase = "ready"
  /\ ticks < MaxTicks
  /\ \E in \in TickInputs(servo.mode_), dt \in 0..MaxDt :
       ObservedPair(in, dt,
         UpdateForcesAndMoments(servo, pid, in.joint, in.reference, dt),
         UpdateForcesAndMoments(servo2, pid2, in.joint, in.reference, dt))
  /\ ticks' = ticks + 1
  /\ UNCHANGED <<phase, sdf, servo, servo2, calls>>

NextPair == ConstructPair \/ TickPair

SpecPair == InitPair /\ [][NextPair]_vars

----------------------------------------------------------------------------
(* the claims *)

Sign(x) == IF x < 0 THEN -1 ELSE IF x > 0 THEN 1 ELSE 0

\* C1: in position mode the error handed to PID.Update lies in (-pi, pi],
\* whatever the measured position and the (clamped) reference.
C1_ErrorInHalfTurn ==
  obs.branch = "kPosition" => (-Pi < obs.err /\ obs.err <= Pi)

\* C2: the clamp of force and velocity mode keeps the sign and bounds the
\* magnitude: the clamped reference is sign(ref) * min(|ref|, limit) for a
\* limit >= 0; force mode applies direction * that value, velocity mode
\* hands measured velocity minus that value to PID.Update.
C2_SignPreservingClamp ==
  /\ (obs.branch = "kForce" /\ servo.max_torque_ >= 0) =>
       LET want == Sign(obs.reference.effort)
                     * Min(Abs(obs.reference.effort), servo.max_torque_)
       IN  /\ obs.ref = want
           /\ obs.force = Fin(servo.turning_direction_ * want)
  /\ (obs.branch = "kVelocity" /\ servo.max_rot_velocity_ >= 0) =>
       LET want == Sign(obs.reference.vel)
                     * Min(Abs(obs.reference.vel), servo.max_rot_velocity_)
       IN  /\ obs.ref = want
           /\ obs.err = FSub(obs.joint.vel, want)

\* a and b are the same angle: b = a + 2*pi*k for an integer k
SameAngle(a, b) == (b - a) % TwoPi = 0

\* C3: NormalizeAngle gives inputs that are the same angle modulo 2*pi
\* results less than 1e-8 apart.
C3_SameAngleSameResult ==
  (Len(calls) = 2 /\ SameAngle(calls[1].input, calls[2].input)) =>
    Abs(calls[1].result - calls[2].result) < Eps

\* C4: NormalizeAngle returns a value in [0, 2*pi) for every finite input.
C4_ResultInTurn ==
  \A n \in 1..Len(calls) : 0 <= calls[n].result /\ calls[n].result < TwoPi

\* C5: with a joint_control_pid block, PID.Init gets, for each of its seven
\* arguments, the value configured for the field of that name, 0 for a
\* missing field.
C5_InitArgsAsConfigured ==
  (phase = "ready" /\ HasElement(sdf, "joint_control_pid")) =>
    LET b == sdf["joint_control_pid"]
    IN  /\ pid.pGain = getSdfParam(b, "p", 0)
        /\ pid.iGain = getSdfParam(b, "i", 0)
        /\ pid.dGain = getSdfParam(b, "d", 0)
        /\ pid.iMax = getSdfParam(b, "iMax", 0)
        /\ pid.iMin = getSdfParam(b, "iMin", 0)
        /\ pid.cmdMax = getSdfParam(b, "cmdMax", 0)
        /\ pid.cmdMin = getSdfParam(b, "cmdMin", 0)

\* C6: two controllers that differ in spinDirection alone, given the same
\* ticks, hand SetForce values of equal magnitude and opposite sign at
\* every tick.
C6_OppositeForces ==
  obs.branch # "none" =>
    /\ obs.force.finite = obs.force2.finite
    /\ obs.force.value = -obs.force2.value

\* C7: without a joint_control_pid block the integrator holds seven zeros,
\* and every tick of position or velocity mode hands SetForce 0.
C7_ZeroForceWithoutPid ==
  (phase = "ready" /\ ~HasElement(sdf, "joint_control_pid")) =>
    /\ pid.pGain = 0 /\ pid.iGain = 0 /\ pid.dGain = 0
    /\ pid.iMax = 0 /\ pid.iMin = 0 /\ pid.cmdMax = 0 /\ pid.cmdMin = 0
    /\ obs.branch \in {"kPosition", "kVelocity"} => obs.force = Fin(0)

C7_Witness ==
  /\ phase = "ready"
  /\ ~HasElement(sdf, "joint_control_pid")
  /\ ticks >= 2
  /\ obs.branch = "kPosition"
  /\ obs.dt # 0
  /\ obs.err # 0
  /\ pid.iErr # Fin(0)

\* C8: construction goes through for every element, and the two enumerated
\* fields resolve as: "velocity", "position", "force" to their modes, a
\* missing or other controlMode to position; "cw" to CW (-1), "ccw" and a
\* missing or other spinDirection to CCW (+1).
C8_EnumsResolve ==
  /\ phase = "new" => ENABLED Construct
  /\ phase = "ready" =>
       /\ servo.mode_ =
            IF ~HasElement(sdf, "controlMode") THEN "kPosition"
            ELSE CASE sdf["controlMode"] = "velocity" -> "kVelocity"
                   [] sdf["controlMode"] = "position" -> "kPosition"
                   [] sdf["controlMode"] = "force" -> "kForce"
                   [] OTHER -> "kPosition"
       /\ servo.turning_direction_ =
            IF HasElement(sdf, "spinDirection") /\ sdf["spinDirection"] = "cw"
            THEN -1 ELSE 1

C8_Witness ==
  /\ phase = "ready"
  /\ HasElement(sdf, "controlMode") /\ sdf["controlMode"] = "torque"
  /\ HasElement(sdf, "spinDirection") /\ sdf["spinDirection"] = "left"
  /\ servo.mode_ = "kPosition"
  /\ servo.turning_direction_ = 1

\* C9: after construction maxPosition >= minPosition, whatever the element
\* gives for maxRotPosition and minRotPosition.
C9_LimitsOrdered ==
  phase = "ready" => servo.max_rot_position_ >= servo.min_rot_position_

\* C10: in position mode with minPosition <= maxPosition the reference used
\* for the error is the commanded one clamped into [minPosition,
\* maxPosition].
C10_ReferenceClamped ==
  (obs.branch = "kPosition"
     /\ servo.min_rot_position_ <= servo.max_rot_position_) =>
    obs.ref = IF obs.reference.pos > servo.max_rot_position_
                THEN servo.max_rot_position_
              ELSE IF obs.reference.pos < servo.min_rot_position_
                THEN servo.min_rot_position_
              ELSE obs.reference.pos

C10_Witness ==
  /\ obs.branch = "kPosition"
  /\ servo.min_rot_position_ = -16
  /\ servo.max_rot_position_ = 16
  /\ obs.reference.pos = 200
  /\ obs.ref = 16

====
